---- MODULE Spec2Model ----
(***************************************************************************)
(* changelog_handler/version.py: the SemanticVersion value type.           *)
(*                                                                         *)
(* Python values are records tagged with their type.  A str is a sequence  *)
(* of one-character strings, so that matching, splitting, int() and the    *)
(* f-string formatting are computed character by character.                *)
(***************************************************************************)
EXTENDS Integers, Sequences, FiniteSets, TLC

VARIABLES objs, last

vars == <<objs, last>>

(***************************************************************************)
(* Bounds of the explored inputs.                                          *)
(***************************************************************************)
\* most dot-separated identifiers in a generated pre-release segment
MaxPreIds == 2
\* most dot-separated identifiers in a generated build segment
MaxBuildIds == 1

(***************************************************************************)
(* Python values.                                                          *)
(***************************************************************************)
PyStr(s) == [type |-> "str", chars |-> s]
PyInt(n) == [type |-> "int", n |-> n]
PyBool(b) == [type |-> "bool", b |-> b]
PyNone == [type |-> "NoneType"]
NotImplemented == [type |-> "NotImplementedType"]

Return(v) == [kind |-> "return", value |-> v]
Raise(e) == [kind |-> "raise", exc |-> e]

\* isinstance(x, cls) for the two classes the module tests against
isinstance(x, cls) == x.type = cls

(***************************************************************************)
(* Character classes of the regular expressions (ASCII range).             *)
(***************************************************************************)
DigitChars == <<"0", "1", "2", "3", "4", "5", "6", "7", "8", "9">>

\* \d
IsDigit(c) == \E k \in 1..10 : DigitChars[k] = c

UpperChars ==
    <<"A", "B", "C", "D", "E", "F", "G", "H", "I", "J", "K", "L", "M",
      "N", "O", "P", "Q", "R", "S", "T", "U", "V", "W", "X", "Y", "Z">>

LowerChars ==
    <<"a", "b", "c", "d", "e", "f", "g", "h", "i", "j", "k", "l", "m",
      "n", "o", "p", "q", "r", "s", "t", "u", "v", "w", "x", "y", "z">>

Letters == {UpperChars[k] : k \in 1..26} \cup {LowerChars[k] : k \in 1..26}

\* IDENTIFIER = '[a-zA-Z0-9-]'
IDENTIFIER(c) == c \in Letters \/ IsDigit(c) \/ c = "-"

(***************************************************************************)
(* str helpers.                                                            *)
(***************************************************************************)
\* s[i:j] with 1-based i and exclusive j
Slice(s, i, j) == SubSeq(s, i, j - 1)

\* least index >= i of s that holds c, or Len(s) + 1
RECURSIVE Find(_, _, _)
Find(s, c, i) ==
    IF i > Len(s) THEN Len(s) + 1
    ELSE IF s[i] = c THEN i
    ELSE Find(s, c, i + 1)

\* str.split(sep): ''.split('.') is [''], 'a..b'.split('.') is ['a', '', 'b']
RECURSIVE split(_, _)
split(s, sep) ==
    LET k == Find(s, sep, 1)
    IN  IF k > Len(s) THEN <<s>>
        ELSE <<Slice(s, 1, k)>> \o split(Slice(s, k + 1, Len(s) + 1), sep)

\* sep.join(parts)
RECURSIVE join(_, _)
join(parts, sep) ==
    IF Len(parts) = 0 THEN <<>>
    ELSE IF Len(parts) = 1 THEN parts[1]
    ELSE parts[1] \o <<sep>> \o join(Tail(parts), sep)

DigitValue(c) == (CHOOSE k \in 1..10 : DigitChars[k] = c) - 1

\* int(s) for a string of digits: '01' is 1, '10' is 10
RECURSIVE int(_)
int(s) ==
    IF Len(s) = 0 THEN 0
    ELSE 10 * int(Slice(s, 1, Len(s))) + DigitValue(s[Len(s)])

\* f'{n}' for a non-negative int: no sign, no leading zeros
RECURSIVE format(_)
format(n) ==
    IF n < 10 THEN <<DigitChars[n + 1]>>
    ELSE format(n \div 10) \o <<DigitChars[(n % 10) + 1]>>

(***************************************************************************)
(* SEMVAR.fullmatch.  The pattern is an optional V or v, three runs of     *)
(* digits separated by dots, an optional "-" with a dot-separated list of  *)
(* identifiers, an optional "+" with another such list, and the end.  No   *)
(* character class overlaps the separator that follows it, so the match is *)
(* decided by the maximal runs.                                            *)
(***************************************************************************)
\* index after the maximal run of digits of s that starts at i
RECURSIVE DigitsEnd(_, _)
DigitsEnd(s, i) ==
    IF i <= Len(s) /\ IsDigit(s[i]) THEN DigitsEnd(s, i + 1) ELSE i

\* index after the maximal run of identifier characters and dots from i
RECURSIVE DotSepEnd(_, _)
DotSepEnd(s, i) ==
    IF i <= Len(s) /\ (IDENTIFIER(s[i]) \/ s[i] = ".") THEN DotSepEnd(s, i + 1) ELSE i

\* DOTSEP_ID: one or more identifiers, each non-empty, separated by single dots
DOTSEP_ID(s) ==
    /\ Len(s) > 0
    /\ \A k \in 1..Len(s) : IDENTIFIER(s[k]) \/ s[k] = "."
    /\ \A k \in 1..Len(split(s, ".")) : Len(split(s, ".")[k]) > 0

NoMatch == [matched |-> FALSE]

\* the optional build group and the end of the string, from index i
BuildTail(s, i, g) ==
    IF i = Len(s) + 1 THEN [g EXCEPT !.matched = TRUE]
    ELSE IF s[i] = "+" /\ DOTSEP_ID(Slice(s, i + 1, Len(s) + 1))
    THEN [g EXCEPT !.matched = TRUE, !.build = Slice(s, i + 1, Len(s) + 1)]
    ELSE NoMatch

\* the optional pre_release group from index i, then the build and the end
PreTail(s, i, g) ==
    IF i <= Len(s) /\ s[i] = "-"
    THEN LET j == DotSepEnd(s, i + 1)
         IN  IF DOTSEP_ID(Slice(s, i + 1, j))
             THEN BuildTail(s, j, [g EXCEPT !.pre_release = Slice(s, i + 1, j)])
             ELSE NoMatch
    ELSE BuildTail(s, i, g)

\* match.groupdict(default=''), or NoMatch when fullmatch returns None
SEMVAR(s) ==
    LET i0 == IF Len(s) > 0 /\ s[1] \in {"V", "v"} THEN 2 ELSE 1
        i1 == DigitsEnd(s, i0)
        i2 == DigitsEnd(s, i1 + 1)
        i3 == DigitsEnd(s, i2 + 1)
    IN  IF /\ i1 > i0 /\ i1 <= Len(s) /\ s[i1] = "."
           /\ i2 > i1 + 1 /\ i2 <= Len(s) /\ s[i2] = "."
           /\ i3 > i2 + 1
        THEN PreTail(s, i3,
                     [matched |-> FALSE,
                      major |-> Slice(s, i0, i1),
                      minor |-> Slice(s, i1 + 1, i2),
                      patch |-> Slice(s, i2 + 1, i3),
                      pre_release |-> <<>>,
                      build |-> <<>>])
        ELSE NoMatch

(***************************************************************************)
(* class SemanticVersion.                                                  *)
(***************************************************************************)
\* the instance with its five slots
Instance(major, minor, patch, preRelease, build) ==
    [type |-> "SemanticVersion",
     _major |-> major, _minor |-> minor, _patch |-> patch,
     _preRelease |-> preRelease, _build |-> build]

\* the loop over self._preRelease.split('.') from its k-th part on:
\* "ok" when it runs to its end, else the exception that leaves it
RECURSIVE LeadingZeroLoop(_, _)
LeadingZeroLoop(parts, k) ==
    IF k > Len(parts) THEN "ok"
    ELSE LET p == parts[k]
         IN  IF p # <<"0">>
             THEN IF Len(p) = 0 THEN "IndexError"
                  ELSE IF p[1] = "0" THEN "InvalidSemanticVersion"
                  ELSE LeadingZeroLoop(parts, k + 1)
             ELSE LeadingZeroLoop(parts, k + 1)

\* SemanticVersion(version): the new instance, or the exception raised
__init__(version) ==
    IF ~isinstance(version, "str") THEN Raise("TypeError")
    ELSE LET results == SEMVAR(version.chars)
         IN  IF ~results.matched THEN Raise("InvalidSemanticVersion")
             ELSE LET self == Instance(int(results.major), int(results.minor),
                                       int(results.patch), results.pre_release,
                                       results.build)
                      loop == LeadingZeroLoop(split(self._preRelease, "."), 1)
                  IN  IF loop = "ok" THEN Return(self) ELSE Raise(loop)

\* f'{self._major}.{self._minor}.{self._patch}'
version(self) ==
    format(self._major) \o <<".">> \o format(self._minor) \o <<".">> \o format(self._patch)

\* __str__ with the build segment appended after "-" instead of "+"
StrBuildAfterHyphen(self) ==
    LET rtn0 == version(self)
        rtn1 == IF self._preRelease # <<>> THEN rtn0 \o <<"-">> \o self._preRelease ELSE rtn0
        rtn2 == IF self._build # <<>> THEN rtn1 \o <<"-">> \o self._build ELSE rtn1
    IN  rtn2

__str__(self) ==
    LET rtn0 == version(self)
        rtn1 == IF self._preRelease # <<>> THEN rtn0 \o <<"-">> \o self._preRelease ELSE rtn0
        rtn2 == IF self._build # <<>> THEN rtn1 \o <<"+">> \o self._build ELSE rtn1
    IN  rtn2

ClassName == <<"S", "e", "m", "a", "n", "t", "i", "c", "V", "e", "r", "s", "i", "o", "n">>

__repr__(self) == ClassName \o <<"(", "\"">> \o __str__(self) \o <<"\"", ")">>

toDict(self) ==
    [type |-> "dict",
     items |-> [major |-> PyInt(self._major), minor |-> PyInt(self._minor),
                patch |-> PyInt(self._patch),
                pre_release |-> PyStr(self._preRelease),
                build_metadata |-> PyStr(self._build)]]

PropertyNames == {"version", "major", "minor", "patch", "preRelease", "buildMetadata"}

\* the read-only properties
Property(self, name) ==
    CASE name = "version" -> PyStr(version(self))
      [] name = "major" -> PyInt(self._major)
      [] name = "minor" -> PyInt(self._minor)
      [] name = "patch" -> PyInt(self._patch)
      [] name = "preRelease" -> PyStr(self._preRelease)
      [] name = "buildMetadata" -> PyStr(self._build)

\* __eq__ that compares the build metadata as well
EqWithBuild(self, other) ==
    IF isinstance(other, "SemanticVersion")
    THEN PyBool(/\ self._major = other._major
                /\ self._minor = other._minor
                /\ self._patch = other._patch
                /\ self._preRelease = other._preRelease
                /\ self._build = other._build)
    ELSE NotImplemented

\* __eq__ that answers False for a value of another type
EqForeignFalse(self, other) ==
    IF isinstance(other, "SemanticVersion")
    THEN PyBool(/\ self._major = other._major
                /\ self._minor = other._minor
                /\ self._patch = other._patch
                /\ self._preRelease = other._preRelease)
    ELSE PyBool(FALSE)

__eq__(self, other) ==
    IF isinstance(other, "SemanticVersion")
    THEN PyBool(/\ self._major = other._major
                /\ self._minor = other._minor
                /\ self._patch = other._patch
                /\ self._preRelease = other._preRelease)
    ELSE NotImplemented

\* the branch on isinstance holds only "pass"
__lt__(self, other) ==
    IF isinstance(other, "SemanticVersion") THEN NotImplemented ELSE NotImplemented

\* @total_ordering supplies __gt__ from __lt__ and __eq__
__gt__(self, other) ==
    LET op_result == __lt__(self, other)
    IN  IF op_result.type = "NotImplementedType" THEN op_result
        ELSE PyBool(~op_result.b /\ ~(__eq__(self, other).b))

\* what a method of x returns for the operand y; a value of another type
\* does not know SemanticVersion and answers NotImplemented
Method(name, x, y) ==
    IF ~isinstance(x, "SemanticVersion") THEN NotImplemented
    ELSE CASE name = "__eq__" -> __eq__(x, y)
           [] name = "__lt__" -> __lt__(x, y)
           [] name = "__gt__" -> __gt__(x, y)

\* the expression x == y: the method, then the reflected one, then identity
\* (the operands of the expressions modelled here are distinct objects)
OperatorEq(x, y) ==
    LET r1 == Method("__eq__", x, y)
        r2 == Method("__eq__", y, x)
    IN  IF r1.type # "NotImplementedType" THEN Return(r1)
        ELSE IF r2.type # "NotImplementedType" THEN Return(r2)
        ELSE Return(PyBool(FALSE))

\* the expressions x < y and x > y: the method, then the reflected one of
\* the other operand, then TypeError
OperatorOrder(name, reflected, x, y) ==
    LET r1 == Method(name, x, y)
        r2 == Method(reflected, y, x)
    IN  IF r1.type # "NotImplementedType" THEN Return(r1)
        ELSE IF r2.type # "NotImplementedType" THEN Return(r2)
        ELSE Raise("TypeError")

OperatorLt(x, y) == OperatorOrder("__lt__", "__gt__", x, y)

OperatorGt(x, y) == OperatorOrder("__gt__", "__lt__", x, y)

(***************************************************************************)
(* The arguments the constructor and the comparisons are explored with.    *)
(***************************************************************************)
Slots == {1, 2}

Unbound == [type |-> "unbound"]

\* the sequences of 1..n elements of S
SeqsUpTo(S, n) == UNION {[1..k -> S] : k \in 1..n}

\* digit strings of the core: plain, with a leading zero, of two digits
NumPool == {<<"0">>, <<"0", "1">>, <<"1", "0">>}

\* pre-release identifiers: "0", alphabetic, numeric with a leading zero,
\* alphanumeric with a leading zero
PreIdPool == {<<"0">>, <<"a">>, <<"0", "1">>, <<"0", "a">>}

\* build identifiers: numeric with leading zeros, alphabetic
BuildIdPool == {<<"0", "0", "7">>, <<"b">>}

Core(ma, mi, pa) == ma \o <<".">> \o mi \o <<".">> \o pa

Base == <<"1", ".", "0", ".", "0">>

PreSegments == {<<"-">> \o join(ids, ".") : ids \in SeqsUpTo(PreIdPool, MaxPreIds)}

BuildSegments == {<<"+">> \o join(ids, ".") : ids \in SeqsUpTo(BuildIdPool, MaxBuildIds)}

\* each of the three numbers in turn drawn from NumPool
Cores ==
    {Core(n, <<"0">>, <<"0">>) : n \in NumPool}
        \cup {Core(<<"1">>, n, <<"0">>) : n \in NumPool}
        \cup {Core(<<"1">>, <<"0">>, n) : n \in NumPool}

CoreTexts == {core \o pre : core \in Cores, pre \in {<<>>, <<"-", "a">>}}

PrefixTexts ==
    {pfx \o <<"1", ".", "2", ".", "3">> \o pre :
        pfx \in {<<"v">>, <<"V">>, <<"x">>, <<"v", "V">>},
        pre \in {<<>>, <<"-", "a">>}}

PreTexts == {Base \o pre : pre \in PreSegments}

BuildTexts ==
    {Base \o pre \o build : pre \in {<<>>, <<"-", "a">>, <<"-", "0", "1">>},
                            build \in BuildSegments}

\* texts off the grammar, a hyphenated identifier, a dotted build segment
OtherTexts ==
    {<<>>,
     <<"1", ".", "2">>,
     <<"1", ".", "2", ".", "x">>,
     <<"1", ".", ".", "3">>,
     <<"1", ".", "2", ".", "3", ".", "4">>,
     <<"1", ".", "0", ".", "0", "-">>,
     <<"1", ".", "0", ".", "0", "+">>,
     <<"1", ".", "0", ".", "0", "-", "+", "b">>,
     <<"1", ".", "0", ".", "0", "-", "a", ".">>,
     <<"1", ".", "0", ".", "0", "-", ".", "a">>,
     <<"1", ".", "0", ".", "0", "-", "a", ".", ".", "a">>,
     <<"1", ".", "0", ".", "0", "-", "a", "_">>,
     <<"1", ".", "0", ".", "0", "+", "b", "+", "b">>,
     <<"1", ".", "0", ".", "0", "+", "b", "-", "a">>,
     <<"1", ".", "0", ".", "0", " ">>,
     <<"1", ".", "0", ".", "0", "-", "0", "-", "1">>,
     <<"1", ".", "0", ".", "0", "-", "a", "+", "b", ".", "0", "0", "7">>,
     <<"1", ".", "0", ".", "0", "-", "-">>}

Texts == CoreTexts \cup PrefixTexts \cup PreTexts \cup BuildTexts \cup OtherTexts

\* values that are no str and no SemanticVersion
NonText == {PyInt(1), PyNone}

ConstructorArgs == {PyStr(s) : s \in Texts} \cup NonText

\* operands of another type, one of them the text of a version
Foreign == {PyInt(1), PyStr(<<"1", ".", "0", ".", "0", "-", "a">>)}

\* __init__ of every explored argument
Constructed == [v \in ConstructorArgs |-> __init__(v)]

Bound(i) == objs[i].type = "SemanticVersion"

\* the operands the bound version i can be compared with
Operands(i) == {objs[j] : j \in {k \in Slots \ {i} : Bound(k)}} \cup Foreign

Call(op, i, arg, res) == [op |-> op, self |-> i, arg |-> arg, res |-> res]

(***************************************************************************)
(* The program: names are bound to new instances, and the operations of    *)
(* the class are applied to the bound instances.                           *)
(***************************************************************************)
Init ==
    /\ objs = [i \in Slots |-> Unbound]
    /\ last = Call("none", 0, PyNone, Return(PyNone))

\* name i = SemanticVersion(v); an exception leaves the name unbound
Construct(i, v) ==
    /\ ~Bound(i)
    /\ LET res == Constructed[v]
       IN  /\ objs' = IF res.kind = "return" THEN [objs EXCEPT ![i] = res.value] ELSE objs
           /\ last' = Call("__init__", i, v, res)

\* str(name i)
CallStr(i) ==
    /\ Bound(i)
    /\ last' = Call("__str__", i, PyNone, Return(PyStr(__str__(objs[i]))))
    /\ UNCHANGED objs

\* repr(name i)
CallRepr(i) ==
    /\ Bound(i)
    /\ last' = Call("__repr__", i, PyNone, Return(PyStr(__repr__(objs[i]))))
    /\ UNCHANGED objs

\* toDict that empties the slots it exports
ToDictClearing(i) ==
    /\ Bound(i)
    /\ last' = Call("toDict", i, PyNone, Return(toDict(objs[i])))
    /\ objs' = [objs EXCEPT ![i]._preRelease = <<>>, ![i]._build = <<>>]

CallToDict(i) ==
    /\ Bound(i)
    /\ last' = Call("toDict", i, PyNone, Return(toDict(objs[i])))
    /\ UNCHANGED objs

GetProperty(i, name) ==
    /\ Bound(i)
    /\ last' = Call(name, i, PyNone, Return(Property(objs[i], name)))
    /\ UNCHANGED objs

\* objs[i].__eq__(other)
CallEq(i, other) ==
    /\ Bound(i)
    /\ last' = Call("__eq__", i, other, Return(__eq__(objs[i], other)))
    /\ UNCHANGED objs

\* objs[i].__lt__(other)
CallLt(i, other) ==
    /\ Bound(i)
    /\ last' = Call("__lt__", i, other, Return(__lt__(objs[i], other)))
    /\ UNCHANGED objs

\* objs[i] == other
CompareEq(i, other) ==
    /\ Bound(i)
    /\ last' = Call("==", i, other, OperatorEq(objs[i], other))
    /\ UNCHANGED objs

\* objs[i] < other
CompareLt(i, other) ==
    /\ Bound(i)
    /\ last' = Call("<", i, other, OperatorLt(objs[i], other))
    /\ UNCHANGED objs

\* objs[i] > other
CompareGt(i, other) ==
    /\ Bound(i)
    /\ last' = Call(">", i, other, OperatorGt(objs[i], other))
    /\ UNCHANGED objs

\* SemanticVersion(str(objs[i]))
Reparse(i) ==
    /\ Bound(i)
    /\ last' = Call("reparse", i, PyNone, __init__(PyStr(__str__(objs[i]))))
    /\ UNCHANGED objs

Next ==
    \/ \E i \in Slots, v \in ConstructorArgs : Construct(i, v)
    \/ \E i \in Slots : CallStr(i)
    \/ \E i \in Slots : CallRepr(i)
    \/ \E i \in Slots : CallToDict(i)
    \/ \E i \in Slots, name \in PropertyNames : GetProperty(i, name)
    \/ \E i \in Slots : \E other \in Operands(i) : CallEq(i, other)
    \/ \E i \in Slots : \E other \in Operands(i) : CallLt(i, other)
    \/ \E i \in Slots : \E other \in Operands(i) : CompareEq(i, other)
    \/ \E i \in Slots : \E other \in Operands(i) : CompareLt(i, other)
    \/ \E i \in Slots : \E other \in Operands(i) : CompareGt(i, other)
    \/ \E i \in Slots : Reparse(i)

Spec == Init /\ [][Next]_vars

(***************************************************************************)
(* Properties.                                                             *)
(***************************************************************************)
\* the last step constructed from a text that the grammar matches
InitOfMatchingText ==
    /\ last.op = "__init__"
    /\ last.arg.type = "str"
    /\ SEMVAR(last.arg.chars).matched

Groups == SEMVAR(last.arg.chars)

Raised(e) == last.res.kind = "raise" /\ last.res.exc = e

ReturnedVersion == last.res.kind = "return" /\ last.res.value.type = "SemanticVersion"

AllDigits(s) == \A k \in 1..Len(s) : IsDigit(s[k])

\* an identifier of digits only, longer than one character, starting with "0"
NumericLeadingZero(p) == AllDigits(p) /\ Len(p) > 1 /\ p[1] = "0"

\* the identifiers of a pre-release string, none for the empty string
Identifiers(s) == IF s = <<>> THEN <<>> ELSE split(s, ".")

\* C1: a text [vV]DIGITS.DIGITS.DIGITS without pre-release and build
\* constructs a version whose major, minor and patch are the values of the
\* digit strings, whose preRelease and buildMetadata are empty and whose
\* string is major.minor.patch
C1_PlainVersionConstructs ==
    (InitOfMatchingText /\ Groups.pre_release = <<>> /\ Groups.build = <<>>)
        => /\ ReturnedVersion
           /\ last.res.value._major = int(Groups.major)
           /\ last.res.value._minor = int(Groups.minor)
           /\ last.res.value._patch = int(Groups.patch)
           /\ last.res.value._preRelease = <<>>
           /\ last.res.value._build = <<>>
           /\ __str__(last.res.value)
                = format(int(Groups.major)) \o <<".">> \o format(int(Groups.minor))
                    \o <<".">> \o format(int(Groups.patch))

\* C2: for a text that matches the grammar, construction fails with
\* InvalidSemanticVersion exactly when some pre-release identifier is all
\* digits, longer than one character and starts with "0"
C2_RejectedIffNumericLeadingZero ==
    InitOfMatchingText
        => (Raised("InvalidSemanticVersion")
              <=> \E k \in 1..Len(Identifiers(Groups.pre_release)) :
                      NumericLeadingZero(Identifiers(Groups.pre_release)[k]))

\* C3: construction from a text either returns a SemanticVersion or raises
\* InvalidSemanticVersion, and TypeError is raised only for a non-text
C3_TextOutcomes ==
    last.op = "__init__"
        => /\ last.arg.type = "str" => (ReturnedVersion \/ Raised("InvalidSemanticVersion"))
           /\ Raised("TypeError") => last.arg.type # "str"

\* C4: constructing from the string of a constructed version succeeds and
\* gives a version equal to it, with the same build metadata
C4_RoundTrip ==
    last.op = "reparse"
        => /\ ReturnedVersion
           /\ __eq__(last.res.value, objs[last.self]) = PyBool(TRUE)
           /\ last.res.value._build = objs[last.self]._build

C4_Witness ==
    /\ last.op = "reparse"
    /\ ReturnedVersion
    /\ objs[last.self]._preRelease # <<>>
    /\ objs[last.self]._build # <<>>

\* the last step compared the bound version with another version
ComparedVersions(ops) ==
    /\ last.op \in ops
    /\ last.arg.type = "SemanticVersion"

\* C5: a == b is true exactly when major, minor, patch and the preRelease
\* strings of a and b are equal, whatever the build metadata
C5_EqualityFields ==
    ComparedVersions({"__eq__", "=="})
        => LET a == objs[last.self]
               b == last.arg
               same == /\ a._major = b._major
                       /\ a._minor = b._minor
                       /\ a._patch = b._patch
                       /\ a._preRelease = b._preRelease
           IN  last.res = Return(PyBool(same))

C5_Witness ==
    /\ ComparedVersions({"=="})
    /\ objs[last.self]._build # last.arg._build
    /\ objs[last.self]._build # <<>>
    /\ last.arg._build # <<>>
    /\ last.res = Return(PyBool(TRUE))

IsBool(res) == res.kind = "return" /\ res.value.type = "bool"

IsTrue(res) == IsBool(res) /\ res.value.b

\* C6: for constructed versions a and b each of a < b, a == b and a > b
\* yields a boolean, and exactly one of the three is true
C6_Trichotomy ==
    ComparedVersions({"<"})
        => LET a == objs[last.self]
               b == last.arg
               lt == last.res
               eq == OperatorEq(a, b)
               gt == OperatorGt(a, b)
           IN  /\ IsBool(lt) /\ IsBool(eq) /\ IsBool(gt)
               /\ Cardinality({r \in {"lt", "eq", "gt"} :
                                  \/ r = "lt" /\ IsTrue(lt)
                                  \/ r = "eq" /\ IsTrue(eq)
                                  \/ r = "gt" /\ IsTrue(gt)}) = 1

\* the characters of identifiers in ASCII order
AsciiChars == <<"-">> \o DigitChars \o UpperChars \o LowerChars

Ord(c) == CHOOSE k \in 1..Len(AsciiChars) : AsciiChars[k] = c

\* s before t in ASCII lexicographic order
RECURSIVE LexLess(_, _)
LexLess(s, t) ==
    IF Len(t) = 0 THEN FALSE
    ELSE IF Len(s) = 0 THEN TRUE
    ELSE IF s[1] # t[1] THEN Ord(s[1]) < Ord(t[1])
    ELSE LexLess(Tail(s), Tail(t))

\* one pre-release identifier before another
IdLess(p, q) ==
    IF AllDigits(p) /\ AllDigits(q) THEN int(p) < int(q)
    ELSE IF AllDigits(p) THEN TRUE
    ELSE IF AllDigits(q) THEN FALSE
    ELSE LexLess(p, q)

\* identifier sequences compared pairwise, a strict prefix being lower
RECURSIVE IdsLess(_, _)
IdsLess(ps, qs) ==
    IF Len(qs) = 0 THEN FALSE
    ELSE IF Len(ps) = 0 THEN TRUE
    ELSE IF ps[1] # qs[1] THEN IdLess(ps[1], qs[1])
    ELSE IdsLess(Tail(ps), Tail(qs))

\* the precedence of Semantic Versioning
Precedes(a, b) ==
    IF a._major # b._major THEN a._major < b._major
    ELSE IF a._minor # b._minor THEN a._minor < b._minor
    ELSE IF a._patch # b._patch THEN a._patch < b._patch
    ELSE IF a._preRelease = <<>> THEN FALSE
    ELSE IF b._preRelease = <<>> THEN TRUE
    ELSE IdsLess(split(a._preRelease, "."), split(b._preRelease, "."))

\* C7: a < b is true exactly when the precedence of Semantic Versioning
\* places a before b
C7_LessIsPrecedence ==
    ComparedVersions({"<"})
        => last.res = Return(PyBool(Precedes(objs[last.self], last.arg)))

\* C8: __eq__ and __lt__ return NotImplemented for an operand that is no
\* SemanticVersion
C8_ForeignNotImplemented ==
    (last.op \in {"__eq__", "__lt__"} /\ last.arg.type # "SemanticVersion")
        => last.res = Return(NotImplemented)

C8_Witness ==
    /\ last.op = "__eq__"
    /\ last.arg.type = "str"
    /\ last.res = Return(NotImplemented)

\* C9: a text with a build segment that matches the grammar and whose
\* pre-release identifiers have no numeric leading zero constructs a
\* version whose buildMetadata is the build segment as written
C9_BuildUnrestricted ==
    (/\ InitOfMatchingText
     /\ Groups.build # <<>>
     /\ \A k \in 1..Len(Identifiers(Groups.pre_release)) :
            ~NumericLeadingZero(Identifiers(Groups.pre_release)[k]))
        => /\ ReturnedVersion
           /\ last.res.value._build = Groups.build

\* C10: no operation changes the fields of a constructed version
C10_Immutable == [][\A i \in Slots : Bound(i) => objs'[i] = objs[i]]_vars

C10_Witness ==
    /\ last.op = "toDict"
    /\ \A i \in Slots : Bound(i)

====
